---- MODULE Spec2Model ----
(***************************************************************************)
(* The Opsource compute driver (libcloud/compute/drivers/opsource.py) as a *)
(* state machine: one connection (session) with its cached _orgId, callers *)
(* that run the driver's public operations, the HTTP requests each         *)
(* operation issues, and the XML decoding of each response.                *)
(*                                                                         *)
(* A step of a caller runs the driver's code from the receipt of one       *)
(* response up to the issue of the next request (the blocking point of the *)
(* synchronous HTTP call), or to the operation's return or raise.          *)
(***************************************************************************)
EXTENDS Naturals, Sequences, FiniteSets, TLC

VARIABLES
    orgId,    \* OpsourceConnection._orgId: None or Some(id)
    call,     \* call[c]: caller c's frame (operation, arguments, position, locals)
    log,      \* log[c]: the requests caller c's current operation has issued, in order
    last,     \* last[c]: the response most recently received by caller c
    result,   \* result[c]: what c's current operation returned or raised
    booted    \* TRUE once a /myaccount request has been issued on the session

vars == <<orgId, call, log, last, result, booted>>

Callers == {1, 2}

----------------------------------------------------------------------------
(* Python values: None and a string are kept apart as <<>> and <<s>>.      *)

None == <<>>
Some(s) == <<s>>
\* "%s" % x
Str(x) == IF x = None THEN "None" ELSE x[1]

----------------------------------------------------------------------------
(* XML.  A body is a sequence of tokens; ET_XML parses it into an element  *)
(* tree or fails, as the expat parser behind ElementTree does.             *)

NoNS == ""
SERVER_NS == "http://oec.api.opsource.net/schemas/server"
NETWORK_NS == "http://oec.api.opsource.net/schemas/network"
DIRECTORY_NS == "http://oec.api.opsource.net/schemas/directory"
DATACENTER_NS == "http://oec.api.opsource.net/schemas/datacenter"
GENERAL_NS == "http://oec.api.opsource.net/schemas/general"

Open(ns, tag) == <<"open", ns, tag>>
Close(ns, tag) == <<"close", ns, tag>>
Text(s) == <<"text", NoNS, s>>
Leaf(ns, tag, s) == <<Open(ns, tag), Text(s), Close(ns, tag)>>
Elem(ns, tag, inner) == <<Open(ns, tag)>> \o inner \o <<Close(ns, tag)>>

NewElement(ns, tag) == [ns |-> ns, tag |-> tag, text |-> "", kids |-> <<>>]

Pop(stack) == SubSeq(stack, 1, Len(stack) - 1)
Top(stack) == stack[Len(stack)]

\* The element on top of the stack is closed: it becomes the last child of
\* the element below it.
Attach(stack) ==
    LET el == Top(stack)
        rest == Pop(stack)
        parent == Top(rest)
    IN  Append(Pop(rest), [parent EXCEPT !.kids = Append(@, el)])

RECURSIVE XMLParse(_, _, _)
XMLParse(toks, i, stack) ==
    IF i > Len(toks)
    THEN [ok |-> FALSE]                       \* no element found / unclosed token
    ELSE LET t == toks[i] IN
         CASE t[1] = "open" ->
                XMLParse(toks, i + 1, Append(stack, NewElement(t[2], t[3])))
           [] t[1] = "close" ->
                IF stack = <<>> \/ Top(stack).ns # t[2] \/ Top(stack).tag # t[3]
                THEN [ok |-> FALSE]           \* mismatched tag
                ELSE IF Len(stack) = 1
                     THEN IF i = Len(toks)
                          THEN [ok |-> TRUE, root |-> Top(stack)]
                          ELSE [ok |-> FALSE] \* junk after document element
                     ELSE XMLParse(toks, i + 1, Attach(stack))
           [] OTHER ->
                IF stack = <<>>
                THEN [ok |-> FALSE]           \* text outside the document element
                ELSE IF Top(stack).kids = <<>> /\ Top(stack).text = ""
                     THEN XMLParse(toks, i + 1,
                                   Append(Pop(stack), [Top(stack) EXCEPT !.text = t[3]]))
                     ELSE XMLParse(toks, i + 1, stack)   \* tail text

ET_XML(text) == XMLParse(text, 1, <<>>)

\* fixxpath unpacks root.tag[1:].split("}", 1) into two names: a tag with no
\* "{namespace}" part splits into one piece and the unpacking raises ValueError.
fixxpathRaises(root) == root.ns = NoNS

\* The xpath (a sequence of names, split on "/") with every step put in the
\* root's namespace.
fixxpath(root, xpath) == [e \in 1..Len(xpath) |-> <<root.ns, xpath[e]>>]

Matches(el, step) == el.ns = step[1] /\ el.tag = step[2]

\* Element.findall with a one-step path: the matching children, in document order.
findall(el, path) == SelectSeq(el.kids, LAMBDA k : Matches(k, path[1]))

\* Element.findtext: the text of the first element the path leads to ("" for
\* an element without text), None when there is none.
RECURSIVE findtext(_, _)
findtext(el, path) ==
    LET found == SelectSeq(el.kids, LAMBDA k : Matches(k, path[1]))
    IN  IF found = <<>> THEN None
        ELSE IF Len(path) = 1 THEN Some(found[1].text)
        ELSE findtext(found[1], Tail(path))

----------------------------------------------------------------------------
(* The response bodies the server is let to send.                          *)

StatusDoc(ns, kidns, res, code, detail) ==
    Elem(ns, "Status", Leaf(kidns, "result", res)
                       \o (IF code = None THEN <<>> ELSE Leaf(ns, "resultCode", code[1]))
                       \o Leaf(ns, "resultDetail", detail))

ServerDoc(tag, id, name, started) ==
    Elem(SERVER_NS, tag, Leaf(SERVER_NS, "id", id) \o Leaf(SERVER_NS, "name", name)
                         \o (IF started = None THEN <<>>
                             ELSE Leaf(SERVER_NS, "isStarted", started[1])))

Bodies ==
    [ empty |-> <<>>,
      truncated |-> <<Open(GENERAL_NS, "Status"), Text("oops")>>,
      \* <Status> with no xmlns: well formed, the root tag has no namespace
      plain_status |-> StatusDoc(NoNS, NoNS, "SUCCESS", Some("REASON_400"), "Bad request"),
      status_success |-> StatusDoc(GENERAL_NS, GENERAL_NS, "SUCCESS", Some("REASON_0"), "Done"),
      status_failed |-> StatusDoc(GENERAL_NS, GENERAL_NS, "FAILED", Some("REASON_400"), "Bad request"),
      \* the result element in another namespace than the root's, no resultCode
      status_foreign |-> StatusDoc(GENERAL_NS, SERVER_NS, "SUCCESS", None, "Denied"),
      account |-> Elem(DIRECTORY_NS, "Account", Leaf(DIRECTORY_NS, "orgId", "abc-123")),
      account2 |-> Elem(DIRECTORY_NS, "Account", Leaf(DIRECTORY_NS, "orgId", "org-2")),
      \* a pending server first in the document, then two deployed ones
      servers |-> Elem(SERVER_NS, "Servers",
                       ServerDoc("PendingDeployServer", "p1", "web1", Some("false"))
                       \o ServerDoc("DeployedServer", "d1", "web1", Some("true"))
                       \o ServerDoc("DeployedServer", "d2", "db", Some("TRUE"))),
      servers2 |-> Elem(SERVER_NS, "Servers",
                        ServerDoc("DeployedServer", "d3", "web1", None)),
      datacenters |-> Elem(DATACENTER_NS, "Datacenters",
                           Elem(DATACENTER_NS, "datacenter",
                                Leaf(DATACENTER_NS, "location", "NA1")
                                \o Leaf(DATACENTER_NS, "displayName", "US - East"))
                           \o Elem(DATACENTER_NS, "datacenter",
                                   Leaf(DATACENTER_NS, "location", "EU1")
                                   \o Leaf(DATACENTER_NS, "displayName", "Europe"))),
      networks |-> Elem(NETWORK_NS, "NetworkWithLocations",
                        Elem(NETWORK_NS, "network",
                             Leaf(NETWORK_NS, "id", "net1") \o Leaf(NETWORK_NS, "name", "lan")
                             \o Leaf(NETWORK_NS, "location", "NA1")
                             \o Leaf(NETWORK_NS, "multicast", "true")
                             \o Leaf(NETWORK_NS, "privateNet", "true"))
                        \o Elem(NETWORK_NS, "network",
                                Leaf(NETWORK_NS, "id", "net2") \o Leaf(NETWORK_NS, "name", "dmz")
                                \o Leaf(NETWORK_NS, "multicast", "TRUE"))
                        \o Elem(NETWORK_NS, "network",
                                Leaf(NETWORK_NS, "id", "net3") \o Leaf(NETWORK_NS, "name", "eu")
                                \o Leaf(NETWORK_NS, "location", "EU1")
                                \o Leaf(NETWORK_NS, "privateNet", "1"))),
      images |-> Elem(SERVER_NS, "ServerImages",
                      Elem(SERVER_NS, "ServerImage",
                           Leaf(SERVER_NS, "id", "img1") \o Leaf(SERVER_NS, "name", "RHEL")
                           \o Leaf(SERVER_NS, "location", "NA1")
                           \o Leaf(SERVER_NS, "resourcePath", "/oec/base/image/img1"))
                      \o Elem(SERVER_NS, "ServerImage",
                              Leaf(SERVER_NS, "id", "img2") \o Leaf(SERVER_NS, "name", "Win"))
                      \o Elem(SERVER_NS, "ServerImage",
                              Leaf(SERVER_NS, "id", "img3") \o Leaf(SERVER_NS, "name", "SUSE")
                              \o Leaf(SERVER_NS, "location", "EU1"))) ]

\* The bodies tried on every request, whatever it asks for.
CommonBodies == {"empty", "truncated", "plain_status", "status_failed", "status_foreign"}

\* The document a request is meant to be answered with.
ProperBodies(pc) ==
    CASE pc = "myaccount" -> {"account", "account2"}
      [] pc \in {"deployed", "pendingDeploy"} -> {"servers", "servers2"}
      [] pc = "datacenter" -> {"datacenters"}
      [] pc = "networkWithLocation" -> {"networks"}
      [] pc = "base_image" -> {"images"}
      [] OTHER -> {"status_success"}

ErrorStatuses == {400, 401, 403, 500}

\* The responses the server may give to the request a caller waits on.
Responses(pc) ==
    [status : {200}, body : CommonBodies \cup ProperBodies(pc)]
    \cup [status : ErrorStatuses, body : CommonBodies]

----------------------------------------------------------------------------
(* OpsourceResponse.                                                       *)

Raised(exc, arg, body, code, msg) ==
    [kind |-> "raise", exc |-> exc, arg |-> arg, body |-> body, code |-> code, msg |-> msg]
Returned(arg, body, code, msg) ==
    [kind |-> "return", exc |-> "", arg |-> arg, body |-> body, code |-> code, msg |-> msg]

InvalidCredsError(body) == Raised("InvalidCredsError", "body", body, None, None)
MalformedResponseError(body) == Raised("MalformedResponseError", "Failed to parse XML", body, None, None)
ValueError == Raised("ValueError", "", "", None, None)
IndexError == Raised("IndexError", "", "", None, None)

\* parse_body without its try/except: the parser's own exception gets out.
parse_body_unguarded(body) ==
    LET p == ET_XML(Bodies[body])
    IN  IF p.ok THEN [kind |-> "object", object |-> p.root]
        ELSE Raised("ExpatError", "", body, None, None)

\* parse_body: the parsed body, or MalformedResponseError.
parse_body(body) ==
    LET p == ET_XML(Bodies[body])
    IN  IF p.ok THEN [kind |-> "object", object |-> p.root]
        ELSE MalformedResponseError(body)

\* parse_error parsing the body before it looks at the status.
parse_error_parsing_first(status, body) ==
    LET p == ET_XML(Bodies[body])
    IN  IF ~p.ok THEN MalformedResponseError(body)
        ELSE IF status \in {401, 403} THEN InvalidCredsError(body)
        ELSE IF status = 400
             THEN IF fixxpathRaises(p.root)
                  THEN Returned("body", body, None, None)
                  ELSE Returned("OpsourceAPIException", "",
                                findtext(p.root, fixxpath(p.root, <<"resultCode">>)),
                                findtext(p.root, fixxpath(p.root, <<"resultDetail">>)))
             ELSE Returned("None", "", None, None)

\* parse_error without its test of status 400.
parse_error_any_status(status, body) ==
    IF status = 401 THEN InvalidCredsError(body)
    ELSE IF status = 403 THEN InvalidCredsError(body)
    ELSE LET p == ET_XML(Bodies[body])
         IN  IF ~p.ok THEN MalformedResponseError(body)
             ELSE IF fixxpathRaises(p.root)
                  THEN Returned("body", body, None, None)
                  ELSE Returned("OpsourceAPIException", "",
                                findtext(p.root, fixxpath(p.root, <<"resultCode">>)),
                                findtext(p.root, fixxpath(p.root, <<"resultDetail">>)))

\* parse_error: raises InvalidCredsError or MalformedResponseError, or returns
\* an OpsourceAPIException, the raw body, or None.
parse_error(status, body) ==
    IF status = 401 THEN InvalidCredsError(body)
    ELSE IF status = 403 THEN InvalidCredsError(body)
    ELSE LET p == ET_XML(Bodies[body])
         IN  IF ~p.ok THEN MalformedResponseError(body)
             ELSE IF status = 400
                  THEN IF fixxpathRaises(p.root)
                       THEN Returned("body", body, None, None)      \* except: return self.body
                       ELSE Returned("OpsourceAPIException", "",
                                     findtext(p.root, fixxpath(p.root, <<"resultCode">>)),
                                     findtext(p.root, fixxpath(p.root, <<"resultDetail">>)))
                  ELSE Returned("None", "", None, None)

\* Response.success
success(status) == status \in 200..299

\* Response.__init__: a response that is no success raises
\* Exception(parse_error()); a success has its body parsed into .object.
Response(status, body) ==
    IF success(status) THEN parse_body(body)
    ELSE LET e == parse_error(status, body)
         IN  IF e.kind = "raise" THEN e
             ELSE Raised("Exception", e.arg, e.body, e.code, e.msg)

----------------------------------------------------------------------------
(* OpsourceConnection.                                                     *)

api_path == "/oec"
api_version == "0.9"

\* request: the action under api_path/api_version.
request(action, method) ==
    [method |-> method, prefix |-> <<api_path, api_version>>, action |-> action]

\* get_resource_path, given what _get_orgId returned.
get_resource_path(org) == <<api_path, api_version, Str(org)>>

\* request_with_orgId building its path as request does.
request_with_orgId_dropped(org, action, method) ==
    [method |-> method, prefix |-> <<api_path, api_version>>, action |-> action]

\* request_with_orgId: the action under get_resource_path().
request_with_orgId(org, action, method) ==
    [method |-> method, prefix |-> get_resource_path(org), action |-> action]

----------------------------------------------------------------------------
(* The XML mapper of OpsourceNodeDriver.                                   *)

_to_node(element) ==
    [id |-> findtext(element, fixxpath(element, <<"id">>)),
     name |-> findtext(element, fixxpath(element, <<"name">>)),
     state |-> IF findtext(element, fixxpath(element, <<"isStarted">>)) = Some("true")
               THEN "RUNNING" ELSE "TERMINATED"]

\* _to_nodes taking the server elements as the document has them.
_to_nodes_in_document_order(object) ==
    LET node_elements ==
            SelectSeq(object.kids,
                      LAMBDA k : \/ Matches(k, <<object.ns, "DeployedServer">>)
                                 \/ Matches(k, <<object.ns, "PendingDeployServer">>))
    IN  [k \in 1..Len(node_elements) |-> _to_node(node_elements[k])]

_to_nodes(object) ==
    LET node_elements == findall(object, fixxpath(object, <<"DeployedServer">>))
                         \o findall(object, fixxpath(object, <<"PendingDeployServer">>))
    IN  [k \in 1..Len(node_elements) |-> _to_node(node_elements[k])]

_to_location(element) ==
    [id |-> findtext(element, fixxpath(element, <<"location">>)),
     name |-> findtext(element, fixxpath(element, <<"displayName">>)),
     country |-> findtext(element, fixxpath(element, <<"country">>))]

_to_locations(object) ==
    LET node_elements == findall(object, fixxpath(object, <<"datacenter">>))
    IN  [k \in 1..Len(node_elements) |-> _to_location(node_elements[k])]

\* location = None, or the list filter(...) gave
NoLocation == [looked |-> FALSE, found |-> <<>>]
Located(location_id, locations) ==
    [looked |-> TRUE, found |-> SelectSeq(locations, LAMBDA x : x.id = location_id)]

_to_network(element, location) ==
    [id |-> findtext(element, fixxpath(element, <<"id">>)),
     name |-> findtext(element, fixxpath(element, <<"name">>)),
     description |-> findtext(element, fixxpath(element, <<"description">>)),
     location |-> location,
     privateNet |-> findtext(element, fixxpath(element, <<"privateNet">>)),
     multicast |-> findtext(element, fixxpath(element, <<"multicast">>)) = Some("true")]

_to_base_image(element, location) ==
    [id |-> Str(findtext(element, fixxpath(element, <<"id">>))),
     name |-> Str(findtext(element, fixxpath(element, <<"name">>))),
     resourcePath |-> findtext(element, fixxpath(element, <<"resourcePath">>)),
     location |-> location]

----------------------------------------------------------------------------
(* Callers and their frames.                                               *)

NodeActions ==
    [reboot_node |-> "?restart", destroy_node |-> "?delete", ex_start_node |-> "?start",
     ex_shutdown_graceful |-> "?shutdown", ex_power_off |-> "?poweroff"]

NoResponse == [status |-> 0, body |-> ""]
NoResult == [kind |-> "none"]
Return(v) == [kind |-> "return", value |-> v]

IdleFrame ==
    [op |-> "", pc |-> "idle", resume |-> "",
     name |-> "", auth |-> "", hasResourcePath |-> FALSE,   \* create_node's kwargs
     node |-> "",                                           \* node.id
     acc |-> <<>>,        \* the records decoded so far
     listed |-> <<>>,     \* the bodies of the node listings received
     body |-> "", i |-> 0 \* the listing being decoded and the element reached
    ]

\* The calls a caller may make.
Names == {"web1", "ghost"}
NodeIds == {"d1"}
Calls ==
    {[IdleFrame EXCEPT !.op = op] :
        op \in {"list_nodes", "list_images", "list_locations", "ex_list_networks"}}
    \cup {[IdleFrame EXCEPT !.op = "create_node", !.name = n, !.auth = a,
                            !.hasResourcePath = h] :
            n \in Names, a \in {"absent", "NodeAuthPassword", "NodeAuthSSHKey"},
            h \in BOOLEAN}
    \cup {[IdleFrame EXCEPT !.op = op, !.node = id] :
            op \in DOMAIN NodeActions, id \in NodeIds}

\* The action and method of the request made at position pc.
ActionAt(f, pc) ==
    CASE pc = "deployed" -> <<"/server/deployed">>
      [] pc = "pendingDeploy" -> <<"/server/pendingDeploy">>
      [] pc = "datacenter" -> <<"/datacenter">>
      [] pc = "networkWithLocation" -> <<"/networkWithLocation">>
      [] pc = "base_image" -> <<"/base/image">>
      [] pc = "server" -> <<"/server">>
      [] pc = "server_action" -> <<"/server/", f.node, NodeActions[f.op]>>
MethodAt(pc) == IF pc = "server" THEN "POST" ELSE "GET"

\* The positions that call get_resource_path(): list_images alone goes
\* through request().
NeedsOrgId(pc) == pc # "base_image"

\* The request made at position pc.
RequestAt(f, pc, org) ==
    IF NeedsOrgId(pc)
    THEN request_with_orgId(org, ActionAt(f, pc), MethodAt(pc))
    ELSE request(ActionAt(f, pc), MethodAt(pc))

\* _get_orgId without its test of the cached value: /myaccount on every call.
MustFetchOnEveryCall(org) == TRUE

\* Whether _get_orgId has to send /myaccount.
MustFetch(org) == org = None

MyAccount == request(<<"/myaccount">>, "GET")

\* The code from position pc on, up to the request it blocks on: the frame
\* then, and the request issued.  have: _get_orgId has just returned org for
\* this position.  The positions "vlan" and "image" of create_node call
\* get_resource_path() for a path and send nothing.
RECURSIVE Proceed(_, _, _, _)
Proceed(f, pc, org, have) ==
    IF NeedsOrgId(pc) /\ ~have /\ MustFetch(org)
    THEN [f |-> [f EXCEPT !.pc = "myaccount", !.resume = pc], reqs |-> <<MyAccount>>]
    ELSE CASE pc = "vlan" ->
                Proceed(f, IF f.hasResourcePath THEN "server" ELSE "image", org, FALSE)
           [] pc = "image" -> Proceed(f, "server", org, FALSE)
           [] OTHER -> [f |-> [f EXCEPT !.pc = pc, !.resume = ""],
                        reqs |-> <<RequestAt(f, pc, org)>>]

Go(c, f, pc, org, have) ==
    LET r == Proceed(f, pc, org, have)
    IN  /\ call' = [call EXCEPT ![c] = r.f]
        /\ log' = [log EXCEPT ![c] = @ \o r.reqs]
        /\ booted' = (booted \/ r.f.pc = "myaccount")
        /\ UNCHANGED result

\* The operation returns or raises.
Done(c, f, res) ==
    /\ call' = [call EXCEPT ![c] = [f EXCEPT !.pc = "idle", !.resume = ""]]
    /\ result' = [result EXCEPT ![c] = res]
    /\ UNCHANGED <<log, booted>>

At(c, op, pc) == call[c].op = op /\ call[c].pc = pc

Init ==
    /\ orgId = None
    /\ call = [c \in Callers |-> IdleFrame]
    /\ log = [c \in Callers |-> <<>>]
    /\ last = [c \in Callers |-> NoResponse]
    /\ result = [c \in Callers |-> NoResult]
    /\ booted = FALSE

\* A caller calls an operation of the driver.
Invoke(c, calls) ==
    /\ call[c].pc = "idle"
    /\ \E f \in calls : call' = [call EXCEPT ![c] = [f EXCEPT !.pc = "called"]]
    /\ log' = [log EXCEPT ![c] = <<>>]
    /\ last' = [last EXCEPT ![c] = NoResponse]
    /\ result' = [result EXCEPT ![c] = NoResult]
    /\ UNCHANGED <<orgId, booted>>

----------------------------------------------------------------------------
(* OpsourceConnection._get_orgId, from the /myaccount response on.         *)

\* _get_orgId swallowing the error of its request: the caller goes on with
\* the id it has.
_get_orgId_swallowing_errors(c) ==
    /\ call[c].pc = "myaccount"
    /\ \E resp \in Responses("myaccount") :
         LET r == Response(resp.status, resp.body)
         IN  /\ last' = [last EXCEPT ![c] = resp]
             /\ IF r.kind = "raise" \/ fixxpathRaises(r.object)
                THEN /\ UNCHANGED orgId
                     /\ Go(c, call[c], call[c].resume, orgId, TRUE)
                ELSE /\ orgId' = findtext(r.object, fixxpath(r.object, <<"orgId">>))
                     /\ Go(c, call[c], call[c].resume, orgId', TRUE)

_get_orgId(c) ==
    /\ call[c].pc = "myaccount"
    /\ \E resp \in Responses("myaccount") :
         LET r == Response(resp.status, resp.body)
         IN  /\ last' = [last EXCEPT ![c] = resp]
             /\ IF r.kind = "raise"
                THEN Done(c, call[c], r) /\ UNCHANGED orgId
                ELSE IF fixxpathRaises(r.object)
                THEN Done(c, call[c], ValueError) /\ UNCHANGED orgId
                ELSE /\ orgId' = findtext(r.object, fixxpath(r.object, <<"orgId">>))
                     /\ Go(c, call[c], call[c].resume, orgId', TRUE)

----------------------------------------------------------------------------
(* list_nodes (also run by create_node for its result).                    *)

list_nodes(c) ==
    /\ At(c, "list_nodes", "called")
    /\ Go(c, call[c], "deployed", orgId, FALSE)
    /\ UNCHANGED <<orgId, last>>

\* create_node returning the first node of that name.
create_node_result_first(name, nodes) ==
    LET matching == SelectSeq(nodes, LAMBDA x : x.name = Some(name))
    IN  IF matching = <<>> THEN IndexError ELSE Return(matching[1])

\* filter(lambda x: x.name == name, self.list_nodes())[-1]
create_node_result(name, nodes) ==
    LET matching == SelectSeq(nodes, LAMBDA x : x.name = Some(name))
    IN  IF matching = <<>> THEN IndexError ELSE Return(matching[Len(matching)])

\* list_nodes going on to /server/pendingDeploy whatever /server/deployed gave.
list_nodes_deployed_ignoring_errors(c) ==
    /\ call[c].pc = "deployed"
    /\ \E resp \in Responses("deployed") :
         LET r == Response(resp.status, resp.body)
         IN  /\ last' = [last EXCEPT ![c] = resp]
             /\ UNCHANGED orgId
             /\ Go(c, [call[c] EXCEPT !.acc = IF r.kind = "raise" \/ fixxpathRaises(r.object)
                                              THEN <<>> ELSE _to_nodes(r.object),
                                      !.listed = <<resp.body>>],
                   "pendingDeploy", orgId, FALSE)

list_nodes_deployed(c) ==
    /\ call[c].pc = "deployed"
    /\ \E resp \in Responses("deployed") :
         LET r == Response(resp.status, resp.body)
         IN  /\ last' = [last EXCEPT ![c] = resp]
             /\ UNCHANGED orgId
             /\ IF r.kind = "raise" THEN Done(c, call[c], r)
                ELSE IF fixxpathRaises(r.object) THEN Done(c, call[c], ValueError)
                ELSE Go(c, [call[c] EXCEPT !.acc = _to_nodes(r.object),
                                           !.listed = <<resp.body>>],
                        "pendingDeploy", orgId, FALSE)

list_nodes_pendingDeploy(c) ==
    /\ call[c].pc = "pendingDeploy"
    /\ \E resp \in Responses("pendingDeploy") :
         LET r == Response(resp.status, resp.body)
         IN  /\ last' = [last EXCEPT ![c] = resp]
             /\ UNCHANGED orgId
             /\ IF r.kind = "raise" THEN Done(c, call[c], r)
                ELSE IF fixxpathRaises(r.object) THEN Done(c, call[c], ValueError)
                ELSE LET nodes == call[c].acc \o _to_nodes(r.object)
                         f == [call[c] EXCEPT !.acc = nodes,
                                              !.listed = Append(@, resp.body)]
                     IN  IF f.op = "create_node"
                         THEN Done(c, f, create_node_result(f.name, nodes))
                         ELSE Done(c, f, Return(nodes))

----------------------------------------------------------------------------
(* create_node.                                                            *)

create_node(c) ==
    /\ At(c, "create_node", "called")
    /\ UNCHANGED <<orgId, last>>
    /\ IF call[c].auth = "NodeAuthSSHKey"
       THEN Done(c, call[c], ValueError)      \* auth must be of NodeAuthPassword type
       ELSE Go(c, call[c], "vlan", orgId, FALSE)

\* The response to the creation POST: .object parses it, then list_nodes().
create_node_server(c) ==
    /\ call[c].pc = "server"
    /\ \E resp \in Responses("server") :
         LET r == Response(resp.status, resp.body)
         IN  /\ last' = [last EXCEPT ![c] = resp]
             /\ UNCHANGED orgId
             /\ IF r.kind = "raise" THEN Done(c, call[c], r)
                ELSE Go(c, call[c], "deployed", orgId, FALSE)

----------------------------------------------------------------------------
(* reboot_node, destroy_node, ex_start_node, ex_shutdown_graceful and      *)
(* ex_power_off.                                                           *)

ServerAction(c, op) ==
    /\ At(c, op, "called")
    /\ Go(c, call[c], "server_action", orgId, FALSE)
    /\ UNCHANGED <<orgId, last>>

reboot_node(c) == ServerAction(c, "reboot_node")
destroy_node(c) == ServerAction(c, "destroy_node")
ex_start_node(c) == ServerAction(c, "ex_start_node")
ex_shutdown_graceful(c) == ServerAction(c, "ex_shutdown_graceful")
ex_power_off(c) == ServerAction(c, "ex_power_off")

\* The verbs returning whether a result element is there at all.
ServerActionResult_any_result(body) ==
    IF fixxpathRaises(body) THEN ValueError
    ELSE Return(findtext(body, fixxpath(body, <<"result">>)) # None)

\* result = body.findtext(fixxpath(body, "result")); return result == 'SUCCESS'
ServerActionResult(body) ==
    IF fixxpathRaises(body) THEN ValueError
    ELSE Return(findtext(body, fixxpath(body, <<"result">>)) = Some("SUCCESS"))

server_action_result(c) ==
    /\ call[c].pc = "server_action"
    /\ \E resp \in Responses("server_action") :
         LET r == Response(resp.status, resp.body)
         IN  /\ last' = [last EXCEPT ![c] = resp]
             /\ UNCHANGED orgId
             /\ IF r.kind = "raise" THEN Done(c, call[c], r)
                ELSE Done(c, call[c], ServerActionResult(r.object))

----------------------------------------------------------------------------
(* list_locations, ex_list_networks and list_images.  _to_network and      *)
(* _to_base_image call list_locations() for every element that has a       *)
(* location.                                                               *)

list_locations(c) ==
    /\ At(c, "list_locations", "called")
    /\ Go(c, call[c], "datacenter", orgId, FALSE)
    /\ UNCHANGED <<orgId, last>>

ex_list_networks(c) ==
    /\ At(c, "ex_list_networks", "called")
    /\ Go(c, call[c], "networkWithLocation", orgId, FALSE)
    /\ UNCHANGED <<orgId, last>>

list_images(c) ==
    /\ At(c, "list_images", "called")
    /\ Go(c, call[c], "base_image", orgId, FALSE)
    /\ UNCHANGED <<orgId, last>>

\* The elements of the listing being decoded (_to_networks, _to_base_images).
ListingElements(f) ==
    LET object == ET_XML(Bodies[f.body]).root
    IN  findall(object, fixxpath(object, <<IF f.op = "ex_list_networks"
                                           THEN "network" ELSE "ServerImage">>))

\* An element decoded as if it never had a location: no list_locations().
LocationId_ignored(element) == None

LocationId(element) == findtext(element, fixxpath(element, <<"location">>))

Item(f, element, location) ==
    IF f.op = "ex_list_networks" THEN _to_network(element, location)
    ELSE _to_base_image(element, location)

\* The list comprehension, up to the first element that has a location.
RECURSIVE DecodeItems(_)
DecodeItems(f) ==
    LET els == ListingElements(f)
    IN  IF f.i > Len(els) \/ LocationId(els[f.i]) # None THEN f
        ELSE DecodeItems([f EXCEPT !.acc = Append(@, Item(f, els[f.i], NoLocation)),
                                   !.i = @ + 1])

\* On with the list comprehension: it ends, or calls list_locations().
Decode(c, f) ==
    LET g == DecodeItems(f)
    IN  IF g.i > Len(ListingElements(g)) THEN Done(c, g, Return(g.acc))
        ELSE Go(c, g, "datacenter", orgId, FALSE)

Listing(c, pc) ==
    /\ call[c].pc = pc
    /\ \E resp \in Responses(pc) :
         LET r == Response(resp.status, resp.body)
         IN  /\ last' = [last EXCEPT ![c] = resp]
             /\ UNCHANGED orgId
             /\ IF r.kind = "raise" THEN Done(c, call[c], r)
                ELSE IF fixxpathRaises(r.object) THEN Done(c, call[c], ValueError)
                ELSE Decode(c, [call[c] EXCEPT !.body = resp.body, !.i = 1, !.acc = <<>>])

ex_list_networks_listing(c) == Listing(c, "networkWithLocation")
list_images_listing(c) == Listing(c, "base_image")

\* The response to /datacenter.
list_locations_datacenter(c) ==
    /\ call[c].pc = "datacenter"
    /\ \E resp \in Responses("datacenter") :
         LET r == Response(resp.status, resp.body)
             f == call[c]
         IN  /\ last' = [last EXCEPT ![c] = resp]
             /\ UNCHANGED orgId
             /\ IF r.kind = "raise" THEN Done(c, f, r)
                ELSE IF fixxpathRaises(r.object) THEN Done(c, f, ValueError)
                ELSE IF f.op = "list_locations"
                THEN Done(c, f, Return(_to_locations(r.object)))
                ELSE LET element == ListingElements(f)[f.i]
                         location == Located(LocationId(element), _to_locations(r.object))
                     IN  Decode(c, [f EXCEPT !.acc = Append(@, Item(f, element, location)),
                                             !.i = @ + 1])

----------------------------------------------------------------------------
(* One caller at a time (the driver's use), and callers sharing the        *)
(* connection.                                                             *)

Replies(c) ==
    \/ _get_orgId(c)
    \/ list_nodes_deployed(c) \/ list_nodes_pendingDeploy(c)
    \/ create_node_server(c)
    \/ server_action_result(c)
    \/ ex_list_networks_listing(c) \/ list_images_listing(c)
    \/ list_locations_datacenter(c)

Entries(c) ==
    \/ list_nodes(c) \/ list_images(c) \/ list_locations(c) \/ ex_list_networks(c)
    \/ create_node(c)
    \/ reboot_node(c) \/ destroy_node(c) \/ ex_start_node(c)
    \/ ex_shutdown_graceful(c) \/ ex_power_off(c)

Next == \E c \in {1} : Invoke(c, Calls) \/ Entries(c) \/ Replies(c)

Spec == Init /\ [][Next]_vars

\* Two callers on one connection, each calling list_locations.
ConcurrentCalls == {f \in Calls : f.op = "list_locations"}

NextConcurrent ==
    \E c \in Callers :
        \/ Invoke(c, ConcurrentCalls)
        \/ list_locations(c)
        \/ _get_orgId(c)
        \/ list_locations_datacenter(c)

SpecConcurrent == Init /\ [][NextConcurrent]_vars

----------------------------------------------------------------------------
(* What a step shows of a caller.                                          *)

\* The requests caller c issues in the step.
Sent(c) ==
    IF Len(log'[c]) > Len(log[c])
    THEN SubSeq(log'[c], Len(log[c]) + 1, Len(log'[c]))
    ELSE <<>>

\* Caller c receives the response it waits on in the step.
Receives(c) ==
    /\ call[c].pc \notin {"idle", "called"}
    /\ <<call[c], log[c], last[c], result[c]>>' # <<call[c], log[c], last[c], result[c]>>

\* A request under api_path/api_version/<account id>.
IsScoped(rq) == Len(rq.prefix) = 3

\* The text of the orgId element a /myaccount body holds in its root's
\* namespace, None when it holds none.
OrgIdIn(body) ==
    LET root == ET_XML(Bodies[body]).root
        found == SelectSeq(root.kids, LAMBDA k : k.tag = "orgId" /\ k.ns = root.ns)
    IN  IF found = <<>> THEN None ELSE Some(found[1].text)

Range(seq) == {seq[k] : k \in DOMAIN seq}

----------------------------------------------------------------------------
(* C1, as stated: in any sequence of operations on one session the         *)
(* /myaccount request is issued before the first account-scoped request,   *)
(* every account-scoped request goes to a path that contains the account   *)
(* id parsed from the /myaccount body, and /myaccount is never issued a    *)
(* second time in the session.                                             *)
C1_BootstrapNeverRepeated ==
    [][\A c \in Callers : \A k \in DOMAIN Sent(c) :
          /\ Sent(c)[k] = MyAccount => ~booted
          /\ IsScoped(Sent(c)[k]) =>
                /\ booted
                /\ Sent(c)[k].prefix = <<api_path, api_version, Str(orgId')>>]_vars

(* C1, amended: every account-scoped request is issued after a /myaccount  *)
(* request and goes to api_path/api_version/<the cached _orgId, as "%s"    *)
(* formats it>; a /myaccount response that is decoded leaves the orgId     *)
(* text of its body (None when it has none) in _orgId; and once _orgId     *)
(* holds an id it never changes and /myaccount is not issued again.        *)
C1_CachedOnceResolved ==
    [][\A c \in Callers :
          /\ \A k \in DOMAIN Sent(c) :
                /\ Sent(c)[k] = MyAccount => orgId = None
                /\ IsScoped(Sent(c)[k]) =>
                      /\ booted
                      /\ Sent(c)[k].prefix = <<api_path, api_version, Str(orgId')>>
          /\ orgId # None => orgId' = orgId
          /\ (Receives(c) /\ call[c].pc = "myaccount" /\ result'[c].kind # "raise")
                => orgId' = OrgIdIn(last'[c].body)]_vars

\* An operation that found the id cached: it sent account-scoped requests
\* under abc-123 and no /myaccount.
C1_Witness ==
    /\ orgId = Some("abc-123")
    /\ call[1].op = "list_nodes" /\ result[1].kind = "return"
    /\ Len(log[1]) = 2
    /\ \A k \in DOMAIN log[1] : log[1][k].prefix = <<"/oec", "0.9", "abc-123">>

----------------------------------------------------------------------------
(* C2: when callers issue their first account-scoped request on a session  *)
(* whose account id is still unset, /myaccount is fetched once: never are  *)
(* two callers each waiting on a /myaccount request of their own.          *)
C2_SingleResolution ==
    Cardinality({c \in Callers : call[c].pc = "myaccount"}) <= 1

----------------------------------------------------------------------------
(* C3, as stated: every request other than /myaccount is prefixed with     *)
(* api_path/api_version/<account id>.                                      *)
C3_AllButBootstrapScoped ==
    \A c \in Callers : \A k \in DOMAIN log[c] :
        IF log[c][k].action = <<"/myaccount">>
        THEN log[c][k].prefix = <<api_path, api_version>>
        ELSE /\ IsScoped(log[c][k])
             /\ SubSeq(log[c][k].prefix, 1, 2) = <<api_path, api_version>>

(* C3, amended: every request other than /myaccount and the /base/image    *)
(* listing of list_images is prefixed with api_path/api_version/<account   *)
(* id>, the id being the cached _orgId as "%s" formats it ("None" while a  *)
(* /myaccount body gave no orgId); /myaccount and /base/image are prefixed *)
(* with api_path/api_version alone.                                        *)
C3_ScopedExceptBootstrapAndImages ==
    \A c \in Callers : \A k \in DOMAIN log[c] :
        IF log[c][k].action \in {<<"/myaccount">>, <<"/base/image">>}
        THEN log[c][k].prefix = <<"/oec", "0.9">>
        ELSE log[c][k].prefix \in {<<"/oec", "0.9", "None">>, <<"/oec", "0.9", Str(orgId)>>}

\* list_images: /base/image under /oec/0.9, then the /datacenter requests of
\* its decoding under /oec/0.9/abc-123.
C3_Witness ==
    /\ call[1].op = "list_images" /\ result[1].kind = "return"
    /\ [action |-> <<"/base/image">>, method |-> "GET", prefix |-> <<"/oec", "0.9">>]
          \in Range(log[1])
    /\ [action |-> <<"/datacenter">>, method |-> "GET",
        prefix |-> <<"/oec", "0.9", "abc-123">>] \in Range(log[1])

----------------------------------------------------------------------------
(* What a body holds, read off the document itself.                        *)

WellFormed(body) == ET_XML(Bodies[body]).ok
RootOf(body) == ET_XML(Bodies[body]).root

\* The text of the first child of the root named tag in the root's namespace.
FieldIn(body, tag) ==
    LET found == SelectSeq(RootOf(body).kids,
                           LAMBDA k : k.tag = tag /\ k.ns = RootOf(body).ns)
    IN  IF found = <<>> THEN None ELSE Some(found[1].text)

Answered(c) == last[c].status # 0

----------------------------------------------------------------------------
(* C4: a response with status 401 or 403 fails with InvalidCredsError      *)
(* whatever its body is (well formed, unparseable or empty): the body is   *)
(* not parsed first.                                                       *)
C4_InvalidCredentials ==
    \A c \in Callers :
        last[c].status \in {401, 403} =>
            /\ call[c].pc = "idle"
            /\ result[c].kind = "raise"
            /\ result[c].exc = "InvalidCredsError"
            /\ result[c].body = last[c].body

\* A 401 whose body does not parse.
C4_Witness ==
    /\ last[1] = [status |-> 401, body |-> "truncated"]
    /\ result[1].kind = "raise" /\ result[1].exc = "InvalidCredsError"

----------------------------------------------------------------------------
(* C5, as stated: every response that is no success, whose status is       *)
(* neither 401 nor 403 and whose body is parseable XML fails with an       *)
(* OpsourceAPIException carrying the body's resultCode and resultDetail.   *)
C5_ApiErrorOnAnyStatus ==
    \A c \in Callers :
        (/\ Answered(c) /\ ~success(last[c].status)
         /\ last[c].status \notin {401, 403}
         /\ WellFormed(last[c].body))
        => /\ result[c].kind = "raise"
           /\ result[c].arg = "OpsourceAPIException"
           /\ result[c].code = FieldIn(last[c].body, "resultCode")
           /\ result[c].msg = FieldIn(last[c].body, "resultDetail")

(* C5, amended: a response with status 400 whose body is parseable XML     *)
(* with a namespace-qualified root fails with an OpsourceAPIException      *)
(* carrying the resultCode and resultDetail found in the root's namespace  *)
(* (None for one that is absent); a 400 whose root has no namespace fails  *)
(* with the raw body; any other status that is no success, 401 or 403      *)
(* fails with an error that carries neither code nor detail.               *)
C5_ApiErrorOn400 ==
    \A c \in Callers :
        (/\ Answered(c) /\ ~success(last[c].status)
         /\ last[c].status \notin {401, 403}
         /\ WellFormed(last[c].body))
        => /\ call[c].pc = "idle"
           /\ result[c].kind = "raise"
           /\ result[c].exc = "Exception"
           /\ IF last[c].status = 400 /\ RootOf(last[c].body).ns # NoNS
              THEN /\ result[c].arg = "OpsourceAPIException"
                   /\ result[c].code = FieldIn(last[c].body, "resultCode")
                   /\ result[c].msg = FieldIn(last[c].body, "resultDetail")
              ELSE IF last[c].status = 400
              THEN /\ result[c].arg = "body"
                   /\ result[c].body = last[c].body
                   /\ result[c].code = None /\ result[c].msg = None
              ELSE /\ result[c].arg = "None"
                   /\ result[c].code = None /\ result[c].msg = None

\* The 400 with resultCode REASON_400 and resultDetail "Bad request".
C5_Witness ==
    /\ last[1] = [status |-> 400, body |-> "status_failed"]
    /\ result[1].kind = "raise"
    /\ result[1].arg = "OpsourceAPIException"
    /\ result[1].code = Some("REASON_400")
    /\ result[1].msg = Some("Bad request")

----------------------------------------------------------------------------
(* C6: a response whose body is not well-formed XML, a success or not      *)
(* (status other than 401 and 403), fails with MalformedResponseError and  *)
(* with nothing else: not the parser's exception, not the raw body, not an *)
(* OpsourceAPIException, not a normal return.                              *)
C6_MalformedResponse ==
    \A c \in Callers :
        (/\ Answered(c)
         /\ last[c].status \notin {401, 403}
         /\ ~WellFormed(last[c].body))
        => /\ call[c].pc = "idle"
           /\ result[c].kind = "raise"
           /\ result[c].exc = "MalformedResponseError"
           /\ result[c].body = last[c].body

\* A success whose body is cut short.
C6_Witness ==
    /\ last[1] = [status |-> 200, body |-> "truncated"]
    /\ result[1].kind = "raise" /\ result[1].exc = "MalformedResponseError"

----------------------------------------------------------------------------
(* C7: each of reboot_node, destroy_node, ex_start_node,                   *)
(* ex_shutdown_graceful and ex_power_off issues one request, to            *)
(* /server/<id> with its own suffix (restart, delete, start, shutdown,     *)
(* poweroff), and returns whether the result field decoded from the        *)
(* response is the string SUCCESS: False, and no error, for any other      *)
(* value and for an absent field.  It raises only when the response does   *)
(* not decode (no success, not well formed, a root without namespace).     *)
C7_Suffix ==
    [reboot_node |-> "?restart", destroy_node |-> "?delete", ex_start_node |-> "?start",
     ex_shutdown_graceful |-> "?shutdown", ex_power_off |-> "?poweroff"]

\* The requests of a log that are not /myaccount.
OwnRequests(c) == SelectSeq(log[c], LAMBDA rq : rq # MyAccount)

C7_NodeActions ==
    \A c \in Callers :
        call[c].op \in DOMAIN C7_Suffix =>
            LET own == OwnRequests(c) IN
            /\ Len(own) <= 1
            /\ \A k \in DOMAIN own :
                  /\ own[k].method = "GET"
                  /\ IsScoped(own[k])
                  /\ own[k].action = <<"/server/", call[c].node, C7_Suffix[call[c].op]>>
            /\ (call[c].pc = "idle" /\ Len(own) = 1) =>
                  IF /\ success(last[c].status) /\ WellFormed(last[c].body)
                     /\ RootOf(last[c].body).ns # NoNS
                  THEN result[c] =
                          Return(FieldIn(last[c].body, "result") = Some("SUCCESS"))
                  ELSE result[c].kind = "raise"
            /\ result[c].kind = "return" => Len(own) = 1

\* reboot_node answered with result FAILED returns False.
C7_Witness ==
    /\ call[1].op = "reboot_node" /\ call[1].pc = "idle"
    /\ last[1] = [status |-> 200, body |-> "status_failed"]
    /\ result[1] = Return(FALSE)

----------------------------------------------------------------------------
(* The node listing a body holds: the ids of its DeployedServer elements,  *)
(* then those of its PendingDeployServer elements, each group as the       *)
(* document has them.                                                      *)

IdOf(element) ==
    LET found == SelectSeq(element.kids, LAMBDA k : k.tag = "id" /\ k.ns = element.ns)
    IN  IF found = <<>> THEN None ELSE Some(found[1].text)

ChildIds(body, tag) ==
    LET found == SelectSeq(RootOf(body).kids,
                           LAMBDA k : k.tag = tag /\ k.ns = RootOf(body).ns)
    IN  [k \in 1..Len(found) |-> IdOf(found[k])]

ListedIds(body) == ChildIds(body, "DeployedServer") \o ChildIds(body, "PendingDeployServer")

Ids(nodes) == [k \in 1..Len(nodes) |-> nodes[k].id]

\* seq is the start of whole
IsPrefix(seq, whole) ==
    /\ Len(seq) <= Len(whole)
    /\ \A k \in DOMAIN seq : seq[k] = whole[k]

Actions(reqs) == [k \in 1..Len(reqs) |-> <<reqs[k].method, reqs[k].action>>]

----------------------------------------------------------------------------
(* C8: create_node POSTs to /server first and lists the nodes only after   *)
(* the POST succeeded; the node it returns is the last one, in listing     *)
(* order (deployed before pending), whose name is the name asked for.      *)
C8_CreateNodeReturnsLastMatch ==
    \A c \in Callers :
        call[c].op = "create_node" =>
            LET own == OwnRequests(c)
                nodes == call[c].acc
            IN
            /\ IsPrefix(Actions(own), << <<"POST", <<"/server">> >>,
                                         <<"GET", <<"/server/deployed">> >>,
                                         <<"GET", <<"/server/pendingDeploy">> >> >>)
            \* while the first listing is awaited the last response is the POST's
            /\ (call[c].pc = "deployed" /\ log[c][Len(log[c]) - 1].method = "POST")
                  => success(last[c].status) /\ WellFormed(last[c].body)
            /\ result[c].kind = "return" =>
                  /\ Len(own) = 3
                  /\ Len(call[c].listed) = 2
                  /\ Ids(nodes) = ListedIds(call[c].listed[1]) \o ListedIds(call[c].listed[2])
                  /\ \E k \in DOMAIN nodes :
                        /\ result[c].value = nodes[k]
                        /\ nodes[k].name = Some(call[c].name)
                        /\ \A j \in DOMAIN nodes : j > k => nodes[j].name # Some(call[c].name)

\* Three nodes named web1 in the listing: the pending one, last, is returned.
C8_Witness ==
    /\ call[1].op = "create_node" /\ call[1].name = "web1"
    /\ call[1].listed = <<"servers2", "servers">>
    /\ result[1].kind = "return"
    /\ result[1].value.id = Some("p1")

----------------------------------------------------------------------------
(* C9: list_nodes issues two listing requests, /server/deployed and then   *)
(* /server/pendingDeploy, and returns the nodes of the first response      *)
(* followed by those of the second; within one response the                *)
(* DeployedServer entries come before the PendingDeployServer entries,     *)
(* each group in document order.                                           *)
C9_ListNodesOrder ==
    \A c \in Callers :
        call[c].op = "list_nodes" =>
            LET own == OwnRequests(c) IN
            /\ IsPrefix(Actions(own), << <<"GET", <<"/server/deployed">> >>,
                                         <<"GET", <<"/server/pendingDeploy">> >> >>)
            /\ \A k \in DOMAIN own : IsScoped(own[k])
            /\ result[c].kind = "return" =>
                  /\ Len(own) = 2
                  /\ Len(call[c].listed) = 2
                  /\ Ids(result[c].value) =
                        ListedIds(call[c].listed[1]) \o ListedIds(call[c].listed[2])

\* The deployed listing holds a pending server ahead of two deployed ones.
C9_Witness ==
    /\ call[1].op = "list_nodes" /\ result[1].kind = "return"
    /\ call[1].listed = <<"servers", "servers2">>
    /\ Ids(result[1].value) = <<Some("d1"), Some("d2"), Some("p1"), Some("d3")>>

----------------------------------------------------------------------------
----------------------------------------------------------------------------
(* The requests of a log for one action, and the ServerImage elements of a *)
(* body that hold a location element, read off the document itself.        *)

RequestsFor(c, action) == SelectSeq(log[c], LAMBDA rq : rq.action = action)

ImagesIn(body) ==
    SelectSeq(RootOf(body).kids,
              LAMBDA k : k.tag = "ServerImage" /\ k.ns = RootOf(body).ns)

LocatedImages(body) ==
    SelectSeq(ImagesIn(body),
              LAMBDA k : \E j \in DOMAIN k.kids :
                               k.kids[j].tag = "location" /\ k.kids[j].ns = k.ns)

(* C11, as stated: list_images issues exactly one request per call, the    *)
(* /base/image listing, whatever number of images the response holds; no   *)
(* other request is issued while the images are decoded.                   *)
C11_OneRequestOnly ==
    \A c \in Callers :
        call[c].op = "list_images" =>
            /\ Len(log[c]) <= 1
            /\ \A k \in DOMAIN log[c] : log[c][k].action = <<"/base/image">>

(* C11, amended: list_images issues exactly one /base/image listing        *)
(* request per call, and it is the first request of the call; while the    *)
(* images are decoded it issues one /datacenter request (list_locations)   *)
(* for every image that holds a location element, preceded by /myaccount   *)
(* while no account id is cached, and no request for an image without      *)
(* location.                                                               *)
C11_OneListingPlusLocations ==
    \A c \in Callers :
        call[c].op = "list_images" =>
            LET listing == RequestsFor(c, <<"/base/image">>)
                located == RequestsFor(c, <<"/datacenter">>)
            IN
            /\ Len(listing) <= 1
            /\ log[c] # <<>> => log[c][1] = request(<<"/base/image">>, "GET")
            /\ \A k \in DOMAIN log[c] :
                  log[c][k].action \in {<<"/base/image">>, <<"/datacenter">>, <<"/myaccount">>}
            /\ located # <<>> =>
                  Len(located) <= Len(LocatedImages(call[c].body))
            /\ result[c].kind = "return" =>
                  /\ Len(listing) = 1
                  /\ Len(located) = Len(LocatedImages(call[c].body))
                  /\ Len(result[c].value) = Len(ImagesIn(call[c].body))

\* Three images, two of them with a location: one listing request and two
\* /datacenter requests.
C11_Witness ==
    /\ call[1].op = "list_images" /\ result[1].kind = "return"
    /\ call[1].body = "images"
    /\ Len(RequestsFor(1, <<"/base/image">>)) = 1
    /\ Len(RequestsFor(1, <<"/datacenter">>)) = 2
    /\ Len(result[1].value) = 3

----------------------------------------------------------------------------
(* The elements of a body under a tag, the text of a field of an element,  *)
(* and what Python takes a decoded value for where a boolean is wanted.    *)

ElementsIn(body, tag) ==
    SelectSeq(RootOf(body).kids, LAMBDA k : k.tag = tag /\ k.ns = RootOf(body).ns)

TextOf(element, tag) ==
    LET found == SelectSeq(element.kids, LAMBDA k : k.tag = tag /\ k.ns = element.ns)
    IN  IF found = <<>> THEN None ELSE Some(found[1].text)

\* bool(v) of None or a string
Truthy(v) == v # None /\ v # Some("")

\* Every node decoded from an element of the body has the flag of that element.
NodeFlagsOf(nodes, body) ==
    \A k \in DOMAIN nodes :
        \A tag \in {"DeployedServer", "PendingDeployServer"} :
            \A j \in DOMAIN ElementsIn(body, tag) :
                LET element == ElementsIn(body, tag)[j] IN
                TextOf(element, "id") = nodes[k].id =>
                    ((nodes[k].state = "RUNNING") <=> (TextOf(element, "isStarted") = Some("true")))

MulticastOf(networks, body) ==
    \A k \in DOMAIN networks :
        LET element == ElementsIn(body, "network")[k] IN
        networks[k].multicast <=> (TextOf(element, "multicast") = Some("true"))

PrivateNetOf(networks, body) ==
    \A k \in DOMAIN networks :
        LET element == ElementsIn(body, "network")[k] IN
        Truthy(networks[k].privateNet) <=> (TextOf(element, "privateNet") = Some("true"))

(* C12: every boolean-like text field the mapper decodes (a node's         *)
(* isStarted, a network's multicast flag and a network's private-network   *)
(* flag) is true exactly when its text is the string "true", and false for *)
(* any other string ("", "TRUE", "1") and for an absent element.           *)
C12_BooleanDecoding ==
    \A c \in Callers :
        result[c].kind = "return" =>
            /\ call[c].op = "list_nodes" =>
                  \A b \in DOMAIN call[c].listed :
                      NodeFlagsOf(result[c].value, call[c].listed[b])
            /\ call[c].op = "ex_list_networks" =>
                  /\ Len(result[c].value) = Len(ElementsIn(call[c].body, "network"))
                  /\ MulticastOf(result[c].value, call[c].body)
                  /\ PrivateNetOf(result[c].value, call[c].body)

----------------------------------------------------------------------------
(* C13: a /myaccount request that fails with an error (InvalidCredsError,  *)
(* an OpsourceAPIException or another error of a response that is no       *)
(* success, MalformedResponseError) leaves _orgId unset and ends the       *)
(* operation with that error, the account-scoped request that asked for    *)
(* the id not being sent; and while _orgId is unset the next request an    *)
(* operation issues under the account id is preceded by /myaccount again.  *)
C13_FailedBootstrapLeavesUnset ==
    [][\A c \in Callers :
          /\ (/\ call[c].pc = "myaccount" /\ Receives(c)
              /\ (~success(last'[c].status) \/ ~WellFormed(last'[c].body)))
                => /\ orgId = None /\ orgId' = None
                   /\ Sent(c) = <<>>
                   /\ log'[c][Len(log'[c])] = MyAccount
                   /\ call'[c].pc = "idle"
                   /\ result'[c].kind = "raise"
                   /\ result'[c].exc =
                         IF last'[c].status \in {401, 403} THEN "InvalidCredsError"
                         ELSE IF ~WellFormed(last'[c].body) THEN "MalformedResponseError"
                         ELSE "Exception"
          /\ (orgId = None /\ call[c].pc # "myaccount" /\ Sent(c) # <<>>)
                => Sent(c) \in {<<MyAccount>>, <<request(<<"/base/image">>, "GET")>>}]_vars

\* list_nodes on a session with no id: /myaccount answered 400 with a status
\* document, and /server/deployed never sent.
C13_Witness ==
    /\ call[1].op = "list_nodes" /\ call[1].pc = "idle"
    /\ log[1] = <<MyAccount>>
    /\ last[1] = [status |-> 400, body |-> "status_failed"]
    /\ result[1].kind = "raise" /\ result[1].arg = "OpsourceAPIException"
    /\ orgId = None

====
